---------------------------- MODULE Spec2Model ----------------------------
(***************************************************************************)
(* Catalist Airtable export -> MAP schema JSON.                            *)
(*                                                                         *)
(* Two notebook pipelines are modelled side by side:                       *)
(*   "single"  the single-file notebook (src/unnamed/part_000)             *)
(*   "bundle"  the bundle notebook (src/catalist-type-converter.ipynb)     *)
(*                                                                         *)
(* Python values are records tagged by the field t; a Python string is a   *)
(* sequence of one-character strings, so that strip / split / lower and    *)
(* f-string formatting are computed rather than assumed.  A dict is a      *)
(* function from key strings to values.                                    *)
(***************************************************************************)
EXTENDS Integers, Sequences, FiniteSets, TLC

VARIABLES
    pipeline,     \* which notebook is being run: "single" or "bundle"
    columns,      \* the header row of the CSV: the set of column names
    pc,           \* the notebook cell (or call) about to run
    df,           \* the DataFrame read_csv loaded: a sequence of rows
    cursor,       \* rows the dispatch loop has consumed
    runs,         \* executions of the convert / write cells so far
    descriptors,  \* descriptors / all_desc
    row,          \* the row of the last converter call or loop pass
    result,       \* outcome of the last converter call or loop pass
    payload,      \* single-file: payload assembled by cell 6
    fs,           \* files of OUT_DIR: file name -> content
    written,      \* file names the write cells of the present run wrote
    manifest,     \* bundle: manifest written to schema.json
    args,         \* the arguments of a call of bool_norm or ref
    csv,          \* the file at CSV_PATH: its header and rows, or Missing
    clock,        \* the last reading datetime.now() returned
    timestamp,    \* the global timestamp, None until its cell has run
    others,       \* bundle: the other directories under output/, name -> files
    made,         \* directories the present run created
    journal       \* per run that took a timestamp: the reading and the path

\* What only the config cell, the load cell and a restart of the notebook
\* change.
host == <<args, csv, clock, timestamp, others, made, journal>>

vars == <<pipeline, columns, pc, df, cursor, runs, descriptors, row, result, payload,
          fs, written, manifest, args, csv, clock, timestamp, others, made, journal>>

---------------------------------------------------------------------------
(* String literals of the source, as character sequences.                  *)

sHolonType == <<"H", "o", "l", "o", "n", "T", "y", "p", "e">>
sPropertyType == <<"P", "r", "o", "p", "e", "r", "t", "y", "T", "y", "p", "e">>
sValueType == <<"V", "a", "l", "u", "e", "T", "y", "p", "e">>
sEnumType == <<"E", "n", "u", "m", "T", "y", "p", "e">>
sEnumVariantType == <<"E", "n", "u", "m", "V", "a", "r", "i", "a", "n", "t", "T", "y", "p", "e">>
sRelationshipType == <<"R", "e", "l", "a", "t", "i", "o", "n", "s", "h", "i", "p", "T", "y", "p", "e">>
sCollectionType == <<"C", "o", "l", "l", "e", "c", "t", "i", "o", "n", "T", "y", "p", "e">>
sHolon == <<"H", "o", "l", "o", "n">>
sProperty == <<"P", "r", "o", "p", "e", "r", "t", "y">>
sRelationship == <<"R", "e", "l", "a", "t", "i", "o", "n", "s", "h", "i", "p">>
sDescriptor == <<"D", "e", "s", "c", "r", "i", "p", "t", "o", "r">>
s_descriptor == <<"_", "d", "e", "s", "c", "r", "i", "p", "t", "o", "r">>
sSet == <<"S", "e", "t">>
sChecked == <<"c", "h", "e", "c", "k", "e", "d">>
sNan == <<"n", "a", "n">>
sNoneText == <<"N", "o", "n", "e">>
sTrueText == <<"T", "r", "u", "e">>
sFalseText == <<"F", "a", "l", "s", "e">>
sJsonSuffix == <<"s", ".", "j", "s", "o", "n">>
sSchemaJson == <<"s", "c", "h", "e", "m", "a", ".", "j", "s", "o", "n">>
sCatalistSchema == <<"C", "a", "t", "a", "l", "i", "s", "t", "S", "c", "h", "e", "m", "a">>
sSchemaHolonType == <<"S", "c", "h", "e", "m", "a", "H", "o", "l", "o", "n", "T", "y", "p", "e">>
sSchemaType == <<"S", "c", "h", "e", "m", "a", "T", "y", "p", "e">>
sCoreSchema == <<"C", "o", "r", "e", "S", "c", "h", "e", "m", "a">>

---------------------------------------------------------------------------
(* Python values.                                                          *)

None == [t |-> "None"]
NaN == [t |-> "nan"]                      \* pandas' missing-value marker (a float)
Str(s) == [t |-> "str", s |-> s]
Bool(b) == [t |-> "bool", b |-> b]
IntV(n) == [t |-> "int", n |-> n]
FloatV(n) == [t |-> "float", n |-> n]      \* a float64 with the whole value n
List(xs) == [t |-> "list", v |-> xs]

\* The outcome of a call: a returned value, or the exception that ended it.
Ok(v) == [ok |-> TRUE, val |-> v]
Raise(e) == [ok |-> FALSE, err |-> e]

\* bool(v): Python truthiness.  NaN is a non-zero float, hence true.
Truthy(v) ==
    CASE v.t = "None"  -> FALSE
      [] v.t = "nan"   -> TRUE
      [] v.t = "str"   -> v.s # <<>>
      [] v.t = "bool"  -> v.b
      [] v.t = "int"   -> v.n # 0
      [] v.t = "float" -> v.n # 0
      [] v.t = "list"  -> v.v # <<>>

\* a or b
PyOr(a, b) == IF Truthy(a) THEN a ELSE b

\* pd.isna(v)
IsNa(v) == v.t \in {"None", "nan"}

Digits == <<"0", "1", "2", "3", "4", "5", "6", "7", "8", "9">>

IsDigit(c) == \E d \in 1..10 : Digits[d] = c

DigitVal(c) == (CHOOSE d \in 1..10 : Digits[d] = c) - 1

RECURSIVE NatText(_)
\* The decimal text of a natural number.
NatText(n) == IF n < 10 THEN <<Digits[n + 1]>>
              ELSE NatText(n \div 10) \o <<Digits[(n % 10) + 1]>>

\* str(v), which is also what an f-string field formats v to.
PyStr(v) ==
    CASE v.t = "None"  -> sNoneText
      [] v.t = "nan"   -> sNan
      [] v.t = "str"   -> v.s
      [] v.t = "bool"  -> IF v.b THEN sTrueText ELSE sFalseText
      [] v.t = "int"   -> NatText(v.n)
      [] v.t = "float" -> NatText(v.n) \o <<".", "0">>

IsSpace(c) == c \in {" ", "\t", "\n"}

RECURSIVE LStrip(_)
LStrip(s) == IF s # <<>> /\ IsSpace(Head(s)) THEN LStrip(Tail(s)) ELSE s

RECURSIVE RStrip(_)
RStrip(s) == IF s # <<>> /\ IsSpace(s[Len(s)])
             THEN RStrip(SubSeq(s, 1, Len(s) - 1)) ELSE s

\* s.strip()
Strip(s) == RStrip(LStrip(s))

Upper == <<"A", "B", "C", "D", "E", "F", "G", "H", "I", "J", "K", "L", "M",
           "N", "O", "P", "Q", "R", "S", "T", "U", "V", "W", "X", "Y", "Z">>

Lower == <<"a", "b", "c", "d", "e", "f", "g", "h", "i", "j", "k", "l", "m",
           "n", "o", "p", "q", "r", "s", "t", "u", "v", "w", "x", "y", "z">>

LowerChar(c) == IF \E k \in 1..26 : Upper[k] = c
                THEN Lower[CHOOSE k \in 1..26 : Upper[k] = c] ELSE c

\* s.lower()
ToLower(s) == [k \in 1..Len(s) |-> LowerChar(s[k])]

RECURSIVE SplitFrom(_, _, _)
\* s.split(sep) for a one-character sep: cur is the token being read.
SplitFrom(s, sep, cur) ==
    IF s = <<>> THEN <<cur>>
    ELSE IF Head(s) = sep THEN <<cur>> \o SplitFrom(Tail(s), sep, <<>>)
    ELSE SplitFrom(Tail(s), sep, Append(cur, Head(s)))

Split(s, sep) == SplitFrom(s, sep, <<>>)

RECURSIVE StripTokens(_)
\* [x.strip() for x in toks if x.strip()]
StripTokens(toks) ==
    IF toks = <<>> THEN <<>>
    ELSE IF Strip(Head(toks)) # <<>>
         THEN <<Strip(Head(toks))>> \o StripTokens(Tail(toks))
         ELSE StripTokens(Tail(toks))

\* [x.strip() for x in str(v).split(",") if x.strip()]
SplitList(v) == StripTokens(Split(PyStr(v), ","))

\* int(v) for the values a cell can hold.
PyInt(v) ==
    CASE v.t = "None"  -> Raise("TypeError")
      [] v.t = "nan"   -> Raise("ValueError")
      [] v.t = "bool"  -> Ok(IF v.b THEN 1 ELSE 0)
      [] v.t = "int"   -> Ok(v.n)
      [] v.t = "float" -> Ok(v.n)
      [] v.t = "str"   ->
           LET d == Strip(v.s)
               val[k \in 0..Len(d)] ==
                   IF k = 0 THEN 0 ELSE 10 * val[k - 1] + DigitVal(d[k])
           IN  IF d # <<>> /\ \A k \in 1..Len(d) : IsDigit(d[k])
               THEN Ok(val[Len(d)]) ELSE Raise("ValueError")
      [] v.t = "list"  -> Raise("TypeError")

---------------------------------------------------------------------------
(* Rows.  A row is a function from the CSV's column names to cell values;  *)
(* read_csv loads a blank cell as NaN.                                     *)

\* row.get(key, default)
Get(r, key, default) == IF key \in DOMAIN r THEN r[key] ELSE default

\* row[key]
Item(r, key) == IF key \in DOMAIN r THEN Ok(r[key]) ELSE Raise("KeyError")

---------------------------------------------------------------------------
(* Helpers of the notebooks.                                               *)

\* bool_norm comparing the trimmed text as it is, without lower().
bool_normNoLower(val) ==
    IF val.t = "bool" THEN val.b
    ELSE Strip(PyStr(val)) = sChecked

\* bool_norm(val)
bool_norm(val) ==
    IF val.t = "bool" THEN val.b
    ELSE ToLower(Strip(PyStr(val))) = sChecked

\* ref testing "is not None" in place of truth: an empty qualifier is kept.
refKeepsEmpty(type_name, schema, space) ==
    LET keys == {"type_name"}
                  \cup (IF schema # None THEN {"schema"} ELSE {})
                  \cup (IF space # None THEN {"space"} ELSE {})
        obj == [k \in keys |-> CASE k = "type_name" -> type_name
                                 [] k = "schema"    -> schema
                                 [] k = "space"     -> space]
    IN  "$ref" :> obj

\* ref(type_name, schema=None, space=None)
ref(type_name, schema, space) ==
    LET keys == {"type_name"}
                  \cup (IF Truthy(schema) THEN {"schema"} ELSE {})
                  \cup (IF Truthy(space) THEN {"space"} ELSE {})
        obj == [k \in keys |-> CASE k = "type_name" -> type_name
                                 [] k = "schema"    -> schema
                                 [] k = "space"     -> space]
    IN  "$ref" :> obj

\* ref(type_name)
ref1(type_name) == ref(type_name, None, None)

\* common_header with described_by fixed to the HolonType reference.
common_headerOfHolon(r, descriptor_name) ==
    [descriptor_name |-> descriptor_name,
     label           |-> PyOr(Get(r, "Label (Human Readable)", Str(<<>>)), Str(<<>>)),
     description     |-> PyOr(Get(r, "Description", Str(<<>>)), Str(<<>>)),
     is_dependent    |-> Bool(bool_norm(Get(r, "Is Dependent", Bool(FALSE)))),
     is_value_type   |-> Bool(bool_norm(Get(r, "Is ValueType", Bool(FALSE)))),
     described_by    |-> ref1(Str(sHolonType)),
     is_subtype_of   |-> None]

\* common_header(row, descriptor_name); row["TypeKind"] is present in every
\* row the dispatch loop hands to a converter.
common_header(r, descriptor_name) ==
    [descriptor_name |-> descriptor_name,
     label           |-> PyOr(Get(r, "Label (Human Readable)", Str(<<>>)), Str(<<>>)),
     description     |-> PyOr(Get(r, "Description", Str(<<>>)), Str(<<>>)),
     is_dependent    |-> Bool(bool_norm(Get(r, "Is Dependent", Bool(FALSE)))),
     is_value_type   |-> Bool(bool_norm(Get(r, "Is ValueType", Bool(FALSE)))),
     described_by    |-> ref1(r["TypeKind"]),
     is_subtype_of   |-> None]


\* The wrapper's "type_kind" literal: the one place the two notebooks'
\* converters name the kinds differently.
TypeKindLiteral(p, short, long) == Str(IF p = "single" THEN short ELSE long)

\* SCHEMA_INFO["type_name"] / default_schema["type_name"]
SchemaTypeName == Str(sCatalistSchema)

\* PropertyList keeping the tokens as split, untrimmed:
\* [p for p in str(raw).split(",") if p.strip()]
PropertyListUntrimmed(raw) ==
    IF IsNa(raw) THEN List(<<>>)
    ELSE LET toks == SelectSeq(Split(PyStr(raw), ","), LAMBDA t : Strip(t) # <<>>)
         IN  List([k \in 1..Len(toks) |-> Str(toks[k])])

\* [] if pd.isna(raw) else [p.strip() for p in str(raw).split(",") if p.strip()]
PropertyList(raw) ==
    IF IsNa(raw) THEN List(<<>>)
    ELSE LET toks == SplitList(raw)
         IN  List([k \in 1..Len(toks) |-> Str(toks[k])])

\* row_to_holontype(row)
row_to_holontype(p, r) ==
    LET name == Item(r, "Type Name")
    IN  IF ~name.ok THEN name
        ELSE LET type_name == name.val
                 header == common_header(r, Str(PyStr(type_name) \o sDescriptor))
                 props == Get(r, "MAP PROPERTIES PropertyTypes", Str(<<>>))
                 keyp == Get(r, "MAP KEY_PROPERTIES PropertyTypes", Str(<<>>))
                 spec == ("properties" :> PropertyList(props))
                           @@ ("key_properties" :> PropertyList(keyp))
                           @@ ("type_name" :> type_name)
                           @@ header
             IN  Ok([type_name    |-> type_name,
                     type_kind    |-> TypeKindLiteral(p, sHolon, sHolonType),
                     described_by |-> ref1(Str(sHolonType)),
                     spec         |-> spec])

\* PropertyValueType with the bundle notebook testing and referencing the
\* cell as it is, without strip().
PropertyValueTypeBundleUnstripped(p, r) ==
    LET cell == Get(r, "ValueType (VALUE_TYPE_FOR)", Str(<<>>))
    IN  IF cell.t # "str" THEN Raise("AttributeError")
        ELSE IF p = "single" THEN Ok(ref1(Str(Strip(cell.s))))
        ELSE Ok(IF Truthy(cell) THEN ref1(cell) ELSE None)

\* The value_type of row_to_propertytype: the cell is stripped as a string
\* (a float has no strip method); the single-file notebook always builds a
\* reference, the bundle notebook only from a non-empty name.
PropertyValueType(p, r) ==
    LET cell == Get(r, "ValueType (VALUE_TYPE_FOR)", Str(<<>>))
    IN  IF cell.t # "str" THEN Raise("AttributeError")
        ELSE LET ref_val == Str(Strip(cell.s))
             IN  IF p = "single" THEN Ok(ref1(ref_val))
                 ELSE Ok(IF Truthy(ref_val) THEN ref1(ref_val) ELSE None)

\* row_to_propertytype(row)
row_to_propertytype(p, r) ==
    LET name == Item(r, "Type Name")
        vt == PropertyValueType(p, r)
    IN  IF ~name.ok THEN name
        ELSE IF ~vt.ok THEN vt
        ELSE LET type_name == name.val
                 header == common_header(r, Str(PyStr(type_name) \o s_descriptor))
                 spec == ("property_name" :> type_name)
                           @@ ("value_type" :> vt.val)
                           @@ header
             IN  Ok([type_name    |-> type_name,
                     type_kind    |-> TypeKindLiteral(p, sProperty, sPropertyType),
                     described_by |-> ref1(Str(sPropertyType)),
                     spec         |-> spec])

\* deletion_sem of row_to_relationshiptype
DeletionSemantic(r) ==
    LET cell == Get(r, "Deletion Semantic", None)
    IN  IF IsNa(cell) \/ Strip(PyStr(cell)) = <<>> THEN None ELSE cell

\* HasInverse building the reference with the schema qualifier, as done
\* for target_holon_type.
HasInverseQualified(p, r) ==
    LET cell == Get(r, "Has Inverse", IF p = "single" THEN Str(<<>>) ELSE None)
        has_inverse == PyOr(cell, None)
    IN  IF Truthy(has_inverse) THEN ref(has_inverse, SchemaTypeName, None) ELSE None

\* has_inverse of row_to_relationshiptype, as stored in the edge's spec:
\* row.get("Has Inverse", ...) or None, then ref(...) if it is truthy.
HasInverse(p, r) ==
    LET cell == Get(r, "Has Inverse", IF p = "single" THEN Str(<<>>) ELSE None)
        has_inverse == PyOr(cell, None)
    IN  IF Truthy(has_inverse) THEN ref1(has_inverse) ELSE None

\* int(row.get(column) or default)
TargetCardinality(r, column, default) == PyInt(PyOr(Get(r, column, None), IntV(default)))

\* row.get("Target Semantic", "Set")
TargetSemantic(r) == Get(r, "Target Semantic", Str(sSet))

RECURSIVE ProductToOuter(_, _)
\* Product with the loops exchanged: the second list outer, the first inner.
ProductToOuter(froms, tos) ==
    IF tos = <<>> THEN <<>>
    ELSE [i \in 1..Len(froms) |-> <<froms[i], Head(tos)>>]
           \o ProductToOuter(froms, Tail(tos))

RECURSIVE Product(_, _)
\* itertools.product(froms, tos): the first list is the outer loop.
Product(froms, tos) ==
    IF froms = <<>> THEN <<>>
    ELSE [j \in 1..Len(tos) |-> <<Head(froms), tos[j]>>] \o Product(Tail(froms), tos)

\* froms / tos of row_to_relationshiptype
RelationshipFrom(r) == SplitList(Get(r, "Relationship From", Str(<<>>)))

RelationshipTo(r) == SplitList(Get(r, "Relationship To", Str(<<>>)))

\* f"{src}-{rel_name}->{tgt}"
EdgeTypeName(src, rel_name, tgt) ==
    src \o <<"-">> \o PyStr(rel_name) \o <<"-", ">">> \o tgt

\* One pass of the body of the for loop of row_to_relationshiptype.
EdgeDescriptor(p, r, rel_name, src, tgt, tmin, tmax) ==
    LET type_name == Str(EdgeTypeName(src, rel_name, tgt))
        header == common_header(r, Str(type_name.s \o sDescriptor))
        spec == ("relationship_name" :> rel_name)
                  @@ ("source_owns_relationship" :>
                        Bool(bool_norm(Get(r, "Source Owns Relationship", Bool(FALSE)))))
                  @@ ("deletion_semantic" :> DeletionSemantic(r))
                  @@ ("load_links_immediate" :>
                        Bool(bool_norm(Get(r, "Load Links Immediate", Bool(FALSE)))))
                  @@ ("load_holons_immediate" :>
                        Bool(bool_norm(Get(r, "Load Holons Immediate", Bool(FALSE)))))
                  @@ ("has_inverse" :> HasInverse(p, r))
                  @@ ("target_holon_type" :> ref(Str(tgt), SchemaTypeName, None))
                  @@ ("target_semantic" :> TargetSemantic(r))
                  @@ ("target_min_cardinality" :> IntV(tmin))
                  @@ ("target_max_cardinality" :> IntV(tmax))
                  @@ header
    IN  [type_name    |-> type_name,
         type_kind    |-> TypeKindLiteral(p, sRelationship, sRelationshipType),
         described_by |-> ref1(Str(sRelationshipType)),
         spec         |-> spec]

\* row_to_relationshiptype(row): the list of edges, or the exception raised
\* before the loop is reached.
row_to_relationshiptype(p, r) ==
    LET name == Item(r, "Type Name")
        tmin == TargetCardinality(r, "Target Min Cardinality", 0)
        tmax == TargetCardinality(r, "Target Max Cardinality", 1)
        pairs == Product(RelationshipFrom(r), RelationshipTo(r))
    IN  IF ~name.ok THEN name
        ELSE IF ~tmin.ok THEN tmin
        ELSE IF ~tmax.ok THEN tmax
        ELSE Ok([k \in 1..Len(pairs) |->
                    EdgeDescriptor(p, r, name.val, pairs[k][1], pairs[k][2],
                                   tmin.val, tmax.val)])

---------------------------------------------------------------------------
(* The inputs: CSV headers and rows.                                       *)

Pipelines == {"single", "bundle"}

\* The columns the converters read.
AllColumns ==
    {"Type Name", "TypeKind", "Label (Human Readable)", "Description",
     "Is Dependent", "Is ValueType", "MAP PROPERTIES PropertyTypes",
     "MAP KEY_PROPERTIES PropertyTypes", "ValueType (VALUE_TYPE_FOR)",
     "Source Owns Relationship", "Deletion Semantic", "Load Links Immediate",
     "Load Holons Immediate", "Has Inverse", "Target Min Cardinality",
     "Target Max Cardinality", "Target Semantic", "Relationship From",
     "Relationship To"}

\* The columns of the flattened collection fields and of the relationship
\* options, which an export may lack: row.get then yields its default.
OptionalColumns ==
    {"Target Min Cardinality", "Target Max Cardinality", "Target Semantic",
     "Has Inverse", "Deletion Semantic", "Source Owns Relationship"}

\* The headers an export is read with.
ColumnSets == {AllColumns, AllColumns \ OptionalColumns}

\* A row of a CSV with the columns cols: the cells given in cells, every
\* other cell blank, which read_csv loads as NaN.
MkRow(cols, cells) == [c \in cols |-> IF c \in DOMAIN cells THEN cells[c] ELSE NaN]

E == Str(<<>>)

\* A RelationshipType row with every cell filled in.
FilledRelationship ==
    ("TypeKind" :> Str(sRelationshipType)) @@ ("Type Name" :> Str(<<"R">>))
      @@ ("Relationship From" :> Str(<<"A", ",", " ", "B">>))
      @@ ("Relationship To" :> Str(<<"T", ",", "U">>))
      @@ ("Target Min Cardinality" :> FloatV(0))
      @@ ("Target Max Cardinality" :> FloatV(1))
      @@ ("Target Semantic" :> Str(sSet))
      @@ ("Has Inverse" :> Str(<<"I">>))
      @@ ("Deletion Semantic" :> Str(<<"x">>))
      @@ ("Label (Human Readable)" :> Str(<<"L">>))
      @@ ("Description" :> Str(<<"D">>))

TypeNameCells == {Str(<<"R">>), NaN}

FromCells ==
    {NaN, E, Str(<<" ", ",", " ">>), Str(<<"A">>), Str(<<"A", ",", " ", "B">>),
     Str(<<" ", "A", " ", ",", ",", "B", " ">>)}

ToCells == {NaN, E, Str(<<"T">>), Str(<<"T", ",", "U">>)}

MinCells == {NaN, E, FloatV(0), FloatV(2), Str(<<"2">>), Str(<<"x">>)}

MaxCells == {NaN, E, FloatV(1), FloatV(3)}

SemanticCells == {NaN, E, Str(<<"L", "i", "s", "t">>)}

InverseCells == {NaN, E, Str(<<" ">>), Str(<<"I">>)}

DeletionCells == {NaN, E, Str(<<" ">>), Str(<<" ", "x", " ">>), Str(<<"x">>)}

TextCells == {NaN, E, Str(<<"L">>)}

CheckboxCells ==
    {NaN, Str(sChecked), Str(<<" ", "C", "h", "e", "c", "k", "e", "d", " ">>),
     Bool(TRUE)}

PropertyCells ==
    {NaN, E, Str(<<"A">>), Str(<<"A", ",", " ", "B", ",", ",", "C", " ", ",">>)}

ValueTypeCells == {NaN, E, Str(<<" ">>), Str(<<"V">>), Str(<<" ", "V", " ">>)}

\* RelationshipType rows: the filled row with one group of cells varied.
RelationshipRows(cols) ==
    {MkRow(cols, ("Type Name" :> n) @@ ("Relationship From" :> f)
                   @@ ("Relationship To" :> t) @@ FilledRelationship) :
        n \in TypeNameCells, f \in FromCells, t \in ToCells}
    \cup
    {MkRow(cols, ("Target Min Cardinality" :> lo) @@ ("Target Max Cardinality" :> hi)
                   @@ ("Target Semantic" :> sem) @@ FilledRelationship) :
        lo \in MinCells, hi \in MaxCells, sem \in SemanticCells}
    \cup
    {MkRow(cols, ("Has Inverse" :> inv) @@ ("Deletion Semantic" :> del)
                   @@ FilledRelationship) :
        inv \in InverseCells, del \in DeletionCells}
    \cup
    {MkRow(cols, ("Label (Human Readable)" :> l) @@ ("Description" :> d)
                   @@ ("Source Owns Relationship" :> b) @@ FilledRelationship) :
        l \in TextCells, d \in TextCells, b \in CheckboxCells}

\* HolonType rows.
HolonRows(cols) ==
    {MkRow(cols, ("TypeKind" :> Str(sHolonType)) @@ ("Type Name" :> n)
                   @@ ("MAP PROPERTIES PropertyTypes" :> ps)
                   @@ ("MAP KEY_PROPERTIES PropertyTypes" :> ks)
                   @@ ("Label (Human Readable)" :> l)) :
        n \in {Str(<<"W">>), NaN}, ps \in PropertyCells,
        ks \in {NaN, Str(<<"A">>)}, l \in {NaN, Str(<<"L">>)}}
    \cup
    {MkRow(cols, ("TypeKind" :> Str(sHolonType)) @@ ("Type Name" :> Str(<<"W">>))
                   @@ ("Label (Human Readable)" :> l) @@ ("Description" :> d)
                   @@ ("Is Dependent" :> b) @@ ("Is ValueType" :> v)) :
        l \in TextCells, d \in TextCells, b \in CheckboxCells,
        v \in {NaN, Str(sChecked)}}

\* PropertyType rows.
PropertyRows(cols) ==
    {MkRow(cols, ("TypeKind" :> Str(sPropertyType)) @@ ("Type Name" :> n)
                   @@ ("ValueType (VALUE_TYPE_FOR)" :> vt)
                   @@ ("Description" :> d)) :
        n \in {Str(<<"C">>), NaN}, vt \in ValueTypeCells, d \in {NaN, Str(<<"D">>)}}

\* Rows the dispatch loop has no converter for: the three kinds it lets
\* through, a kind outside TYPEKINDS_TO_EXPORT, and a blank TypeKind.
OtherKindCells ==
    {Str(sValueType), Str(sEnumType), Str(sEnumVariantType), Str(sCollectionType), NaN}

OtherRows(cols) ==
    {MkRow(cols, ("TypeKind" :> k) @@ ("Type Name" :> Str(<<"V">>))) :
        k \in OtherKindCells}

Rows(cols) ==
    RelationshipRows(cols) \cup HolonRows(cols) \cup PropertyRows(cols)
      \cup OtherRows(cols)

---------------------------------------------------------------------------
(* SpecCall: one call of a converter on one row of an export.              *)

NoFiles == [n \in {} |-> <<>>]

\* CSV_PATH names no file.
Missing == [t |-> "missing"]

InitCall ==
    /\ pipeline \in Pipelines
    /\ columns \in ColumnSets
    /\ row \in Rows(columns)
    /\ pc = "call"
    /\ result = None
    /\ df = <<>>
    /\ cursor = 0
    /\ runs = 0
    /\ descriptors = <<>>
    /\ payload = None
    /\ fs = NoFiles
    /\ written = {}
    /\ manifest = None
    /\ args = None
    /\ csv = Missing
    /\ clock = 0
    /\ timestamp = None
    /\ others = NoFiles
    /\ made = {}
    /\ journal = <<>>

Returned(fn, res) ==
    /\ pc' = fn
    /\ result' = res
    /\ UNCHANGED <<pipeline, columns, row, df, cursor, runs, descriptors, payload, fs,
                   written, manifest>>
    /\ UNCHANGED host

CallHolon ==
    /\ pc = "call"
    /\ row["TypeKind"] = Str(sHolonType)
    /\ Returned("row_to_holontype", row_to_holontype(pipeline, row))

CallProperty ==
    /\ pc = "call"
    /\ row["TypeKind"] = Str(sPropertyType)
    /\ Returned("row_to_propertytype", row_to_propertytype(pipeline, row))

CallRelationship ==
    /\ pc = "call"
    /\ row["TypeKind"] = Str(sRelationshipType)
    /\ Returned("row_to_relationshiptype", row_to_relationshiptype(pipeline, row))

CallCommonHeader ==
    /\ pc = "call"
    /\ Returned("common_header", Ok(common_header(row, Str(sDescriptor))))

NextCall == CallHolon \/ CallProperty \/ CallRelationship \/ CallCommonHeader

SpecCall == InitCall /\ [][NextCall]_vars

---------------------------------------------------------------------------
(* SpecHelper: one call of bool_norm or ref on given arguments.            *)

sCheckedCapital == <<"C", "h", "e", "c", "k", "e", "d">>
sCheckedUpper == <<"C", "H", "E", "C", "K", "E", "D">>
sUnchecked == <<"u", "n", "c", "h", "e", "c", "k", "e", "d">>

\* Whitespace around a cell's text.
Pads == {<<>>, <<" ">>, <<"\t", " ">>}

\* Texts of a checkbox cell.
CheckboxWords ==
    {sChecked, sCheckedCapital, sCheckedUpper, sUnchecked, <<>>,
     <<"c", "h", "e", "c", "k">>, <<"c", "h", "e", " ", "c", "k", "e", "d">>,
     sTrueText}

\* Values bool_norm is called on: cell texts, the missing-value marker, the
\* default False of row.get, and other scalars.
BoolNormValues ==
    {Str(a \o w \o b) : a \in Pads, w \in CheckboxWords, b \in Pads}
      \cup {NaN, None, Bool(TRUE), Bool(FALSE), IntV(0), IntV(1), FloatV(1)}

\* Arguments ref is called with.
RefArguments ==
    [type_name : {Str(<<"F", "o", "o">>), E, NaN},
     schema    : {None, E, Str(<<"S">>), Str(<<" ">>)},
     space     : {None, E, Str(<<"Z">>)}]

InitHelper ==
    /\ pc = "call"
    /\ args \in [val : BoolNormValues] \cup RefArguments
    /\ result = None
    /\ pipeline \in Pipelines
    /\ columns = {}
    /\ row = None
    /\ df = <<>>
    /\ cursor = 0
    /\ runs = 0
    /\ descriptors = <<>>
    /\ payload = None
    /\ fs = NoFiles
    /\ written = {}
    /\ manifest = None
    /\ csv = Missing
    /\ clock = 0
    /\ timestamp = None
    /\ others = NoFiles
    /\ made = {}
    /\ journal = <<>>

HelperReturned(fn, res) ==
    /\ pc' = fn
    /\ result' = res
    /\ UNCHANGED <<pipeline, columns, row, df, cursor, runs, descriptors, payload, fs,
                   written, manifest, csv, clock, timestamp, others, made, journal>>

CallBoolNorm ==
    /\ pc = "call"
    /\ "val" \in DOMAIN args
    /\ args' = args
    /\ HelperReturned("bool_norm", Ok(Bool(bool_norm(args.val))))

\* bool_norm applied to what bool_norm returned.
CallBoolNormAgain ==
    /\ pc = "bool_norm"
    /\ args.val # result.val
    /\ args' = [val |-> result.val]
    /\ HelperReturned("bool_norm", Ok(Bool(bool_norm(result.val))))

CallRef ==
    /\ pc = "call"
    /\ "type_name" \in DOMAIN args
    /\ args' = args
    /\ HelperReturned("ref", Ok(ref(args.type_name, args.schema, args.space)))

NextHelper == CallBoolNorm \/ CallBoolNormAgain \/ CallRef

SpecHelper == InitHelper /\ [][NextHelper]_vars

---------------------------------------------------------------------------
(* Spec: a run of a notebook, cell by cell, on a loaded DataFrame.         *)

\* Rows of the DataFrame.
MaxRows == 3

\* Executions of the convert / write cells on one OUT_DIR.
MaxRuns == 2

\* TYPEKINDS_TO_EXPORT / TYPEKINDS
TYPEKINDS ==
    {Str(sHolonType), Str(sPropertyType), Str(sValueType), Str(sEnumType),
     Str(sEnumVariantType), Str(sRelationshipType)}

\* Dispatch with a final else in place of the last elif: every kind that
\* passes the filter and is no PropertyType or RelationshipType is converted
\* as a HolonType.
DispatchValueAsHolon(p, r) ==
    LET kind == r["TypeKind"]
        one(res) == IF res.ok THEN Ok(<<res.val>>) ELSE res
    IN  IF kind \notin TYPEKINDS THEN Ok(<<>>)
        ELSE IF kind = Str(sPropertyType) THEN one(row_to_propertytype(p, r))
        ELSE IF kind = Str(sRelationshipType) THEN row_to_relationshiptype(p, r)
        ELSE one(row_to_holontype(p, r))

\* The body of the dispatch loop for one row: the descriptors the row adds,
\* or the exception a converter raised.
Dispatch(p, r) ==
    LET kind == r["TypeKind"]
        one(res) == IF res.ok THEN Ok(<<res.val>>) ELSE res
    IN  IF kind \notin TYPEKINDS THEN Ok(<<>>)
        ELSE IF kind = Str(sHolonType) THEN one(row_to_holontype(p, r))
        ELSE IF kind = Str(sPropertyType) THEN one(row_to_propertytype(p, r))
        ELSE IF kind = Str(sRelationshipType) THEN row_to_relationshiptype(p, r)
        ELSE Ok(<<>>)

\* Accumulate inserting at the head of the list instead of its end.
AccumulateFront(ds, out) == out \o ds

\* descriptors.append(d) / descriptors.extend(ds)
Accumulate(ds, out) == ds \o out

\* The rows of the DataFrames a run is checked on: one row per path of the
\* dispatch loop, and a PropertyType row whose converter raises.
PipelineRows(cols) ==
    {MkRow(cols, ("TypeKind" :> Str(sHolonType)) @@ ("Type Name" :> Str(<<"W">>))
                   @@ ("MAP PROPERTIES PropertyTypes" :> Str(<<"A", ",", "B">>))),
     MkRow(cols, ("TypeKind" :> Str(sPropertyType)) @@ ("Type Name" :> Str(<<"C">>))
                   @@ ("ValueType (VALUE_TYPE_FOR)" :> Str(<<"V">>))),
     MkRow(cols, ("TypeKind" :> Str(sPropertyType)) @@ ("Type Name" :> Str(<<"C">>))),
     MkRow(cols, FilledRelationship),
     MkRow(cols, ("TypeKind" :> Str(sValueType)) @@ ("Type Name" :> Str(<<"V">>))),
     MkRow(cols, ("TypeKind" :> Str(sCollectionType)) @@ ("Type Name" :> Str(<<"V">>))),
     MkRow(cols, ("TypeKind" :> NaN) @@ ("Type Name" :> Str(<<"V">>)))}

DataFrames(cols) ==
    UNION {[1..n -> PipelineRows(cols)] : n \in 0..MaxRows}

sStaleName == <<"o", "l", "d", "t", "y", "p", "e", "s", ".", "j", "s", "o", "n">>
sNotesName == <<"n", "o", "t", "e", "s", ".", "t", "x", "t">>
sDotJson == <<".", "j", "s", "o", "n">>

\* BASE_NAME
sBaseName ==
    <<"c", "a", "t", "a", "l", "i", "s", "t", "_", "s", "c", "h", "e", "m", "a">>

\* datetime.now().strftime("%Y%m%d_%H%M%S") at the instant of the run.
sTimestamp ==
    <<"2", "0", "2", "5", "0", "6", "1", "0", "_", "1", "5", "3", "0", "2", "9">>

\* f"{BASE_NAME}_{timestamp}.json"
sSingleOutName == sBaseName \o <<"_">> \o sTimestamp \o sDotJson

sMapTypes == <<"m", "a", "p", "_", "t", "y", "p", "e", "s", "_">>

\* A reading of datetime.now() is the local wall-clock time, counted in
\* ticks since 2025-06-10 00:00:00; a second has TicksPerSecond ticks.
TicksPerSecond == 2

\* 2025-06-10 15:30:29, the second of the recorded run.
ReadingAtRun == TicksPerSecond * (15 * 3600 + 30 * 60 + 29)

\* The readings a timestamp is taken from: within the same second, and one
\* second, minute, hour and day later.
ClockReadings ==
    {ReadingAtRun, ReadingAtRun + 1, ReadingAtRun + TicksPerSecond,
     ReadingAtRun + TicksPerSecond * 60, ReadingAtRun + TicksPerSecond * 3600,
     ReadingAtRun + TicksPerSecond * 86400}

\* A two-digit, zero-padded field of strftime.
TwoDigits(n) == <<Digits[(n \div 10) + 1], Digits[(n % 10) + 1]>>

\* strftime with the format "%Y%m%d_%H%M", the seconds left out.
strftimeNoSeconds(reading) ==
    LET secs == reading \div TicksPerSecond
        day == 10 + (secs \div 86400)
        sod == secs % 86400
    IN  <<"2", "0", "2", "5", "0", "6">> \o TwoDigits(day) \o <<"_">>
          \o TwoDigits(sod \div 3600) \o TwoDigits((sod % 3600) \div 60)

\* reading.strftime("%Y%m%d_%H%M%S"), for a reading in June 2025.
strftime(reading) ==
    LET secs == reading \div TicksPerSecond
        day == 10 + (secs \div 86400)
        sod == secs % 86400
    IN  <<"2", "0", "2", "5", "0", "6">> \o TwoDigits(day) \o <<"_">>
          \o TwoDigits(sod \div 3600) \o TwoDigits((sod % 3600) \div 60)
          \o TwoDigits(sod % 60)

\* f"{BASE_NAME}_{timestamp}.json", the file name under OUT_DIR = ./output
SingleOutName(ts) == sBaseName \o <<"_">> \o ts \o sDotJson

\* f"map_types_{timestamp}", the directory name under output/
OutDirName(ts) == sMapTypes \o ts

\* What OUT_DIR holds when the config cell has run.  The bundle notebook's
\* OUT_DIR.mkdir(exist_ok=True) accepts a directory that is already there,
\* whatever it holds.
InitialDirs(p) ==
    IF p = "single" THEN {NoFiles}
    ELSE {NoFiles, (sStaleName :> <<>>) @@ (sNotesName :> <<>>)}

\* The state when the convert cell starts: the config cell has run and
\* read_csv has loaded df.
Init ==
    /\ pipeline \in Pipelines
    /\ columns = AllColumns
    /\ df \in DataFrames(columns)
    /\ fs \in InitialDirs(pipeline)
    /\ pc = "loop"
    /\ cursor = 0
    /\ runs = 1
    /\ descriptors = <<>>
    /\ row = None
    /\ result = None
    /\ payload = None
    /\ written = {}
    /\ manifest = None
    /\ args = None
    /\ csv = [columns |-> columns, rows |-> df]
    /\ clock = ReadingAtRun
    /\ others = NoFiles
    /\ IF pipeline = "single"
       THEN /\ timestamp = None
            /\ made = {}
            /\ journal = <<>>
       ELSE /\ timestamp = Str(strftime(clock))
            /\ made = IF fs = NoFiles THEN {OutDirName(strftime(clock))} ELSE {}
            /\ journal = <<[reading |-> clock, path |-> OutDirName(strftime(clock))]>>

\* One pass of "for _, row in df.iterrows()": an exception a converter
\* raises ends the cell with the descriptors gathered so far.
LoopRow ==
    /\ pc = "loop"
    /\ cursor < Len(df)
    /\ LET r == df[cursor + 1]
           res == Dispatch(pipeline, r)
       IN  /\ row' = r
           /\ result' = res
           /\ cursor' = cursor + 1
           /\ IF res.ok
              THEN /\ descriptors' = Accumulate(descriptors, res.val)
                   /\ pc' = "loop"
              ELSE /\ descriptors' = descriptors
                   /\ pc' = "failed"
    /\ UNCHANGED <<pipeline, columns, df, runs, payload, fs, written, manifest>>
    /\ UNCHANGED host

\* Single-file notebook, cell 6: schema_block and payload.
schema_block ==
    [type_name    |-> SchemaTypeName,
     described_by |-> ref1(Str(sSchemaHolonType)),
     properties   |-> [name        |-> "Catalist 2.5 Schema",
                       description |-> "Types auto-generated from Catalist Airtable export"]]

AssemblePayload ==
    /\ pipeline = "single"
    /\ pc = "loop"
    /\ cursor = Len(df)
    /\ payload' = [schema |-> schema_block, types |-> descriptors]
    /\ pc' = "write"
    /\ UNCHANGED <<columns, pipeline, df, cursor, runs, descriptors, row, result, fs,
                   written, manifest>>
    /\ UNCHANGED host

\* Single-file notebook, cell 7: take the timestamp and json.dump(payload)
\* to the timestamped path; open(out_path, "w") replaces a file of that name.
WriteFile ==
    /\ pipeline = "single"
    /\ pc = "write"
    /\ \E now \in ClockReadings :
         LET out_path == SingleOutName(strftime(now))
         IN  /\ clock' = now
             /\ timestamp' = Str(strftime(now))
             /\ fs' = (out_path :> payload) @@ fs
             /\ written' = written \cup {out_path}
             /\ journal' = Append(journal, [reading |-> now, path |-> out_path])
    /\ pc' = "done"
    /\ UNCHANGED <<columns, pipeline, df, cursor, runs, descriptors, row, result,
                   payload, manifest, args, csv, others, made>>

\* The keys of descriptor_buckets: the type_kind values met in all_desc.
BucketKinds(ds) == {ds[k].type_kind : k \in 1..Len(ds)}

\* descriptor_buckets[kind]: setdefault(...).append(d) keeps all_desc's order.
Bucket(ds, kind) == SelectSeq(ds, LAMBDA d : d.type_kind = kind)

\* BucketFileName without the lower(): f"{kind}s.json"
BucketFileNameNoLower(kind) == PyStr(kind) \o sJsonSuffix

\* f"{kind.lower()}s.json"
BucketFileName(kind) == ToLower(PyStr(kind)) \o sJsonSuffix

\* Bundle notebook, rest of cell 5: bucket all_desc and write each bucket.
BucketWrite ==
    /\ pipeline = "bundle"
    /\ pc = "loop"
    /\ cursor = Len(df)
    /\ LET kinds == BucketKinds(descriptors)
           names == {BucketFileName(k) : k \in kinds}
       IN  /\ fs' = [n \in DOMAIN fs \cup names |->
                       IF n \in names
                       THEN Bucket(descriptors,
                                   CHOOSE k \in kinds : BucketFileName(k) = n)
                       ELSE fs[n]]
           /\ written' = names
    /\ pc' = "manifest"
    /\ UNCHANGED <<columns, pipeline, df, cursor, runs, descriptors, row, result,
                   payload, manifest>>
    /\ UNCHANGED host

\* name matches "*.json"
GlobJson(name) ==
    /\ Len(name) >= Len(sDotJson)
    /\ SubSeq(name, Len(name) - Len(sDotJson) + 1, Len(name)) = sDotJson

\* [f.name for f in OUT_DIR.glob("*.json") if f.name != "schema.json"], as
\* the set of names listed.
TypeFiles(dir) == {n \in DOMAIN dir : GlobJson(n) /\ n # sSchemaJson}

\* The orders a directory listing may give a set of names in.
Listings(S) ==
    {l \in [1..Cardinality(S) -> S] : \A n \in S : \E k \in DOMAIN l : l[k] = n}

\* Bundle notebook, cell 6: build the manifest and write schema.json.
WriteManifest ==
    /\ pipeline = "bundle"
    /\ pc = "manifest"
    /\ \E listing \in Listings(TypeFiles(fs)) :
         /\ manifest' =
              [schema |->
                 [type_name    |-> SchemaTypeName,
                  described_by |-> ref(Str(sSchemaType), Str(sCoreSchema), None),
                  properties   |->
                    [name        |-> "Catalist 2.5 Schema",
                     description |-> "Types generated from Catalist Airtable export"]],
               type_files |-> listing]
         /\ fs' = (sSchemaJson :> manifest') @@ fs
    /\ pc' = "done"
    /\ UNCHANGED <<columns, pipeline, df, cursor, runs, descriptors, row, result,
                   payload, written>>
    /\ UNCHANGED host

\* The operator runs cells 5 and 6 of the bundle notebook again: OUT_DIR is
\* the one the config cell made, with the files of the earlier execution.
Rerun ==
    /\ pipeline = "bundle"
    /\ pc = "done"
    /\ runs < MaxRuns
    /\ runs' = runs + 1
    /\ pc' = "loop"
    /\ cursor' = 0
    /\ descriptors' = <<>>
    /\ written' = {}
    /\ UNCHANGED <<columns, pipeline, df, row, result, payload, fs, manifest>>
    /\ UNCHANGED host

Next ==
    \/ LoopRow
    \/ AssemblePayload
    \/ WriteFile
    \/ BucketWrite
    \/ WriteManifest
    \/ Rerun

Spec == Init /\ [][Next]_vars

---------------------------------------------------------------------------
(* SpecRun: whole runs of a notebook, from the config cell on, one after   *)
(* the other under the same output root.  The root output/ exists.         *)

\* The CSV files a run is started on.
RunFrames ==
    {[columns |-> AllColumns,
      rows |-> <<MkRow(AllColumns, ("TypeKind" :> Str(sHolonType))
                                     @@ ("Type Name" :> Str(<<"W">>))),
                 MkRow(AllColumns, FilledRelationship)>>],
     [columns |-> AllColumns,
      rows |-> <<MkRow(AllColumns, ("TypeKind" :> Str(sHolonType))),
                 MkRow(AllColumns, ("TypeKind" :> Str(sPropertyType))
                                     @@ ("Type Name" :> Str(<<"C">>))
                                     @@ ("ValueType (VALUE_TYPE_FOR)" :> Str(<<"V">>)))>>],
     [columns |-> AllColumns \ {"Type Name"},
      rows |-> <<MkRow(AllColumns \ {"Type Name"}, ("TypeKind" :> Str(sValueType))),
                 MkRow(AllColumns \ {"Type Name"}, ("TypeKind" :> Str(sHolonType))),
                 MkRow(AllColumns \ {"Type Name"}, ("TypeKind" :> Str(sPropertyType)))>>]}

\* The state when a notebook is opened on a fresh kernel.
InitRun ==
    /\ pipeline \in Pipelines
    /\ csv \in {Missing} \cup RunFrames
    /\ pc = "config"
    /\ columns = {}
    /\ df = <<>>
    /\ cursor = 0
    /\ runs = 1
    /\ descriptors = <<>>
    /\ row = None
    /\ result = None
    /\ payload = None
    /\ fs = NoFiles
    /\ written = {}
    /\ manifest = None
    /\ args = None
    /\ clock = 0
    /\ timestamp = None
    /\ others = NoFiles
    /\ made = {}
    /\ journal = <<>>

\* Cell 1.  The single-file notebook only sets its constants.  The bundle
\* notebook takes the timestamp and runs OUT_DIR.mkdir(exist_ok=True): fs
\* becomes the content of OUT_DIR, a directory of that name under output/
\* being taken as it is.
ConfigCell ==
    /\ pc = "config"
    /\ pc' = "load"
    /\ IF pipeline = "single"
       THEN UNCHANGED <<clock, timestamp, fs, others, made, journal>>
       ELSE \E now \in ClockReadings :
              LET dir == OutDirName(strftime(now))
              IN  /\ clock' = now
                  /\ timestamp' = Str(strftime(now))
                  /\ journal' = Append(journal, [reading |-> now, path |-> dir])
                  /\ IF dir \in DOMAIN others
                     THEN /\ fs' = others[dir]
                          /\ others' = [d \in DOMAIN others \ {dir} |-> others[d]]
                          /\ made' = {}
                     ELSE /\ fs' = NoFiles
                          /\ others' = others
                          /\ made' = {dir}
    /\ UNCHANGED <<pipeline, columns, df, cursor, runs, descriptors, row, result,
                   payload, written, manifest, args, csv>>

\* Cell 2: df = pd.read_csv(CSV_PATH), which raises FileNotFoundError when
\* the path names no file.
LoadCell ==
    /\ pc = "load"
    /\ IF csv = Missing
       THEN /\ pc' = "aborted"
            /\ UNCHANGED <<df, columns>>
       ELSE /\ pc' = "loop"
            /\ df' = csv.rows
            /\ columns' = csv.columns
    /\ UNCHANGED <<pipeline, cursor, runs, descriptors, row, result, payload, fs,
                   written, manifest>>
    /\ UNCHANGED host

\* The operator restarts the kernel and runs the notebook from the top: the
\* globals are gone, the files stay.
Restart ==
    /\ pc \in {"done", "failed", "aborted"}
    /\ runs < MaxRuns
    /\ runs' = runs + 1
    /\ pc' = "config"
    /\ columns' = {}
    /\ df' = <<>>
    /\ cursor' = 0
    /\ descriptors' = <<>>
    /\ row' = None
    /\ result' = None
    /\ payload' = None
    /\ manifest' = None
    /\ written' = {}
    /\ made' = {}
    /\ timestamp' = None
    /\ IF pipeline = "single"
       THEN UNCHANGED <<fs, others>>
       ELSE /\ others' = (OutDirName(timestamp.s) :> fs) @@ others
            /\ fs' = NoFiles
    /\ UNCHANGED <<pipeline, args, csv, clock, journal>>

NextRun ==
    \/ ConfigCell
    \/ LoadCell
    \/ LoopRow
    \/ AssemblePayload
    \/ WriteFile
    \/ BucketWrite
    \/ WriteManifest
    \/ Rerun
    \/ Restart

SpecRun == InitRun /\ [][NextRun]_vars

---------------------------------------------------------------------------
(* Claims about the converters, checked under SpecCall.                    *)

\* A cell that is blank in the CSV (loaded as NaN) or holds the empty string.
BlankCell(cell) == cell = NaN \/ cell = E

\* A list cell with no entry: blank, empty, or only commas and whitespace.
EmptyListCell(cell) ==
    \/ cell = NaN
    \/ /\ cell.t = "str"
       /\ \A k \in 1..Len(cell.s) : cell.s[k] = "," \/ IsSpace(cell.s[k])

RelationshipReturned == pc = "row_to_relationshiptype" /\ result.ok

\* C1: row_to_relationshiptype returns |F|*|T| descriptors, the from-list
\* outer and the to-list inner; the descriptor of the pair (F[i], T[j]) has
\* type_name F[i] + "-" + R + "->" + T[j], spec.descriptor_name that name +
\* "Descriptor", and spec.relationship_name R.
C1_CrossProductOrder ==
    RelationshipReturned =>
        LET R == row["Type Name"]
            F == RelationshipFrom(row)
            T == RelationshipTo(row)
            out == result.val
        IN  /\ Len(out) = Len(F) * Len(T)
            /\ \A i \in 1..Len(F) : \A j \in 1..Len(T) :
                 LET d == out[(i - 1) * Len(T) + j]
                     name == F[i] \o <<"-">> \o PyStr(R) \o <<"-", ">">> \o T[j]
                 IN  /\ d.type_name = Str(name)
                     /\ d.spec.descriptor_name = Str(name \o sDescriptor)
                     /\ d.spec.relationship_name = R

\* C1 witness: a row with two sources and two targets has been expanded
\* into four descriptors.
C1_Witness ==
    /\ RelationshipReturned
    /\ Len(RelationshipFrom(row)) = 2
    /\ Len(RelationshipTo(row)) = 2
    /\ Len(result.val) = 4
    /\ row["Type Name"] = Str(<<"R">>)

\* C2: a RelationshipType row whose Relationship From or Relationship To
\* cell is empty (blank, "", or only commas and whitespace) makes
\* row_to_relationshiptype return no descriptor and raise no error, in both
\* pipelines.
C2_EmptyListNoDescriptors ==
    (/\ pc = "row_to_relationshiptype"
     /\ \/ EmptyListCell(row["Relationship From"])
        \/ EmptyListCell(row["Relationship To"]))
      => (result.ok /\ Len(result.val) = 0)

\* C3: with blank Target Min Cardinality, Target Max Cardinality and Target
\* Semantic cells row_to_relationshiptype does not fail and every descriptor
\* has target_min_cardinality 0, target_max_cardinality 1, target_semantic
\* "Set".
C3_CardinalityDefaults ==
    (/\ pc = "row_to_relationshiptype"
     /\ "Target Min Cardinality" \in columns
     /\ "Target Max Cardinality" \in columns
     /\ "Target Semantic" \in columns
     /\ BlankCell(row["Target Min Cardinality"])
     /\ BlankCell(row["Target Max Cardinality"])
     /\ BlankCell(row["Target Semantic"]))
      => /\ result.ok
         /\ \A k \in 1..Len(result.val) :
              /\ result.val[k].spec.target_min_cardinality = IntV(0)
              /\ result.val[k].spec.target_max_cardinality = IntV(1)
              /\ result.val[k].spec.target_semantic = Str(sSet)

\* C8: the bundle pipeline's row_to_propertytype never fails and returns one
\* descriptor with spec.property_name = type_name = Type Name,
\* spec.descriptor_name = Type Name + "_descriptor", and spec.value_type a
\* reference to the trimmed ValueType cell when that is non-empty, absent
\* when the cell is empty or blank.
C8_PropertyValueType ==
    (pipeline = "bundle" /\ pc = "row_to_propertytype") =>
        LET cell == row["ValueType (VALUE_TYPE_FOR)"]
            name == row["Type Name"]
        IN  /\ result.ok
            /\ result.val.type_name = name
            /\ result.val.spec.property_name = name
            /\ result.val.spec.descriptor_name = Str(PyStr(name) \o s_descriptor)
            /\ result.val.spec.value_type =
                 IF BlankCell(cell) \/ Strip(cell.s) = <<>> THEN None
                 ELSE "$ref" :> [type_name |-> Str(Strip(cell.s))]

\* C9: common_header returns label "" and description "" when the cell is
\* blank or empty, is_dependent and is_value_type false when their cell is
\* blank, and is_subtype_of always absent.
C9_HeaderDefaults ==
    pc = "common_header" =>
        LET h == result.val
        IN  /\ BlankCell(row["Label (Human Readable)"]) => h.label = E
            /\ BlankCell(row["Description"]) => h.description = E
            /\ row["Is Dependent"] = NaN => h.is_dependent = Bool(FALSE)
            /\ row["Is ValueType"] = NaN => h.is_value_type = Bool(FALSE)
            /\ h.is_subtype_of = None

\* C10: on every expanded edge spec.has_inverse is absent when the Has
\* Inverse cell is blank or empty and a reference to the cell value
\* otherwise; spec.deletion_semantic is absent when the Deletion Semantic
\* cell is blank or empty after trimming and the untrimmed cell otherwise.
C10_InverseAndDeletion ==
    (/\ RelationshipReturned
     /\ "Has Inverse" \in columns
     /\ "Deletion Semantic" \in columns) =>
        LET inv == row["Has Inverse"]
            del == row["Deletion Semantic"]
        IN  \A k \in 1..Len(result.val) :
              /\ result.val[k].spec.has_inverse =
                   IF BlankCell(inv) THEN None ELSE "$ref" :> [type_name |-> inv]
              /\ result.val[k].spec.deletion_semantic =
                   IF del = NaN \/ Strip(PyStr(del)) = <<>> THEN None ELSE del

\* The entries of a comma-separated text: the stretches between successive
\* commas, each cut down to its first and last non-blank character, the
\* empty ones left out, in the order of the text.
ListEntries(s) ==
    LET cuts == {0, Len(s) + 1} \cup {k \in 1..Len(s) : s[k] = ","}
        nextCut(a) == CHOOSE b \in cuts : b > a /\ \A c \in cuts : c > a => c >= b
        entry(a, b) ==
            LET inked == {k \in (a + 1)..(b - 1) : ~IsSpace(s[k])}
                first == CHOOSE k \in inked : \A m \in inked : k <= m
                last == CHOOSE k \in inked : \A m \in inked : k >= m
            IN  IF inked = {} THEN <<>> ELSE <<Str(SubSeq(s, first, last))>>
        RECURSIVE walk(_)
        walk(a) == IF a = Len(s) + 1 THEN <<>>
                   ELSE entry(a, nextCut(a)) \o walk(nextCut(a))
    IN  walk(0)

sListExample == <<"A", ",", " ", "B", ",", ",", "C", " ", ",">>

\* C11: row_to_holontype returns one descriptor with type_name and
\* spec.type_name the Type Name cell and spec.descriptor_name that name +
\* "Descriptor"; spec.properties and spec.key_properties are the entries of
\* the comma-separated cell, trimmed, the empty ones dropped, in order
\* ("A, B,,C ," gives ["A", "B", "C"]), and the empty list for a blank cell.
C11_HolonDescriptor ==
    pc = "row_to_holontype" =>
        LET name == row["Type Name"]
            props == row["MAP PROPERTIES PropertyTypes"]
            keyp == row["MAP KEY_PROPERTIES PropertyTypes"]
            parsed(cell) == IF cell = NaN THEN List(<<>>) ELSE List(ListEntries(cell.s))
        IN  /\ result.ok
            /\ result.val.type_name = name
            /\ result.val.spec.type_name = name
            /\ result.val.spec.descriptor_name = Str(PyStr(name) \o sDescriptor)
            /\ result.val.spec.properties = parsed(props)
            /\ result.val.spec.key_properties = parsed(keyp)
            /\ props = Str(sListExample) =>
                 result.val.spec.properties
                   = List(<<Str(<<"A">>), Str(<<"B">>), Str(<<"C">>)>>)

\* C11 witness: the cell "A, B,,C ," of a row named W has been parsed into
\* three entries, next to a blank key-properties cell parsed into none.
C11_Witness ==
    /\ pc = "row_to_holontype"
    /\ row["Type Name"] = Str(<<"W">>)
    /\ row["MAP PROPERTIES PropertyTypes"] = Str(sListExample)
    /\ row["MAP KEY_PROPERTIES PropertyTypes"] = NaN
    /\ result.ok
    /\ Len(result.val.spec.properties.v) = 3
    /\ result.val.spec.key_properties = List(<<>>)

\* The other notebook.
Other(p) == IF p = "single" THEN "bundle" ELSE "single"

\* What the other notebook's converter gives on the row of the call, as the
\* list of descriptors the loop accumulates.
OtherResult ==
    LET one(res) == IF res.ok THEN Ok(<<res.val>>) ELSE res
    IN  CASE pc = "row_to_holontype" -> one(row_to_holontype(Other(pipeline), row))
          [] pc = "row_to_propertytype" -> one(row_to_propertytype(Other(pipeline), row))
          [] pc = "row_to_relationshiptype" ->
               row_to_relationshiptype(Other(pipeline), row)

\* The result of the call, as the list of descriptors the loop accumulates.
OwnResult ==
    IF pc = "row_to_relationshiptype" \/ ~result.ok THEN result
    ELSE Ok(<<result.val>>)

\* The wrapper type_kind of each notebook for the converter called.
KindNames ==
    CASE pc = "row_to_holontype" -> [single |-> Str(sHolon), bundle |-> Str(sHolonType)]
      [] pc = "row_to_propertytype" ->
           [single |-> Str(sProperty), bundle |-> Str(sPropertyType)]
      [] pc = "row_to_relationshiptype" ->
           [single |-> Str(sRelationship), bundle |-> Str(sRelationshipType)]

\* The two notebooks agree on a row but for type_kind and, where free
\* holds, for spec.value_type, which is then a reference to "" in the
\* single-file notebook and absent in the bundle notebook.
PipelinesAgree(free) ==
    LET own == OwnResult
        other == OtherResult
    IN  /\ own.ok <=> other.ok
        /\ own.ok =>
             /\ Len(own.val) = Len(other.val)
             /\ \A n \in 1..Len(own.val) :
                  LET a == own.val[n]
                      b == other.val[n]
                      one == IF pipeline = "single" THEN a ELSE b
                      two == IF pipeline = "single" THEN b ELSE a
                  IN  /\ a.type_name = b.type_name
                      /\ a.described_by = b.described_by
                      /\ one.type_kind = KindNames.single
                      /\ two.type_kind = KindNames.bundle
                      /\ DOMAIN a.spec = DOMAIN b.spec
                      /\ \A k \in DOMAIN a.spec :
                           IF k = "value_type" /\ free
                           THEN /\ one.spec[k] = "$ref" :> [type_name |-> E]
                                /\ two.spec[k] = None
                           ELSE a.spec[k] = b.spec[k]

ConverterReturned ==
    pc \in {"row_to_holontype", "row_to_propertytype", "row_to_relationshiptype"}

\* C19 as stated: on the same row the two pipelines' converters fail
\* together or give descriptor lists of the same length and order, whose
\* descriptors are equal in every field except the wrapper's type_kind and
\* a PropertyType's spec.value_type when the value-type cell is the empty
\* string.
C19_PipelinesAgree ==
    ConverterReturned =>
        PipelinesAgree(/\ pc = "row_to_propertytype"
                       /\ row["ValueType (VALUE_TYPE_FOR)"] = E)

\* C19 amended: the same, spec.value_type differing whenever the
\* value-type cell is empty after trimming (the empty string or whitespace
\* only).
C19_PipelinesAgreeTrimmed ==
    ConverterReturned =>
        PipelinesAgree(/\ pc = "row_to_propertytype"
                       /\ row["ValueType (VALUE_TYPE_FOR)"].t = "str"
                       /\ Strip(row["ValueType (VALUE_TYPE_FOR)"].s) = <<>>)

\* C19 witness: the bundle converter has returned a PropertyType descriptor
\* without value_type for a cell holding one space.
C19_Witness ==
    /\ pc = "row_to_propertytype"
    /\ pipeline = "bundle"
    /\ row["ValueType (VALUE_TYPE_FOR)"] = Str(<<" ">>)
    /\ result.ok
    /\ result.val.spec["value_type"] = None
    /\ result.val.type_kind = Str(sPropertyType)

---------------------------------------------------------------------------
(* Claims about the helpers, checked under SpecHelper.                     *)

\* The text reads "checked" in any mix of cases, with nothing but
\* whitespace before and after it.
SaysChecked(s) ==
    \E a \in 1..Len(s) :
        /\ a + Len(sChecked) - 1 <= Len(s)
        /\ \A k \in 1..Len(sChecked) :
             s[a + k - 1] = sChecked[k] \/ s[a + k - 1] = sCheckedUpper[k]
        /\ \A k \in 1..(a - 1) : IsSpace(s[k])
        /\ \A k \in (a + Len(sChecked))..Len(s) : IsSpace(s[k])

\* C12: bool_norm returns a native boolean unchanged; for any other value
\* it returns true exactly when the value's string form, trimmed and
\* lower-cased, is "checked" ("Checked" and "CHECKED " give true; "",
\* "unchecked" and the missing-value marker give false); applied to its own
\* result it returns that result.
C12_BoolNorm ==
    pc = "bool_norm" =>
        /\ result.ok
        /\ result.val.t = "bool"
        /\ args.val.t = "bool" => result.val = args.val
        /\ args.val.t # "bool" => result.val.b = SaysChecked(PyStr(args.val))
        /\ args.val \in {Str(sCheckedCapital), Str(sCheckedUpper \o <<" ">>)}
             => result.val = Bool(TRUE)
        /\ args.val \in {E, Str(sUnchecked), NaN} => result.val = Bool(FALSE)

\* C12 witness: "CHECKED " has been normalised to true.
C12_Witness ==
    /\ pc = "bool_norm"
    /\ args.val = Str(sCheckedUpper \o <<" ">>)
    /\ result = Ok(Bool(TRUE))

\* A qualifier that was supplied and is not the empty string.
Supplied(q) == q # None /\ q # E

\* C13: ref returns an object with the single key "$ref" whose value always
\* has type_name, has schema exactly when a non-empty schema was supplied
\* and space exactly when a non-empty space was supplied, each with the
\* value supplied and never the empty string.
C13_RefQualifiers ==
    pc = "ref" =>
        /\ result.ok
        /\ DOMAIN result.val = {"$ref"}
        /\ LET obj == result.val["$ref"]
           IN  /\ DOMAIN obj \subseteq {"type_name", "schema", "space"}
               /\ "type_name" \in DOMAIN obj
               /\ obj["type_name"] = args.type_name
               /\ "schema" \in DOMAIN obj <=> Supplied(args.schema)
               /\ "space" \in DOMAIN obj <=> Supplied(args.space)
               /\ "schema" \in DOMAIN obj =>
                    obj["schema"] = args.schema /\ obj["schema"] # E
               /\ "space" \in DOMAIN obj =>
                    obj["space"] = args.space /\ obj["space"] # E

\* C13 witness: a call with schema "S" and the empty string as space has
\* returned a reference with type_name and schema only.
C13_Witness ==
    /\ pc = "ref"
    /\ args.schema = Str(<<"S">>)
    /\ args.space = E
    /\ DOMAIN result.val["$ref"] = {"type_name", "schema"}

---------------------------------------------------------------------------
(* Claims about a run of a notebook, checked under Spec.                   *)

sHolonFile == <<"h", "o", "l", "o", "n", "t", "y", "p", "e", "s", ".", "j", "s", "o", "n">>
sPropertyFile ==
    <<"p", "r", "o", "p", "e", "r", "t", "y", "t", "y", "p", "e", "s", ".", "j", "s", "o", "n">>
sRelationshipFile ==
    <<"r", "e", "l", "a", "t", "i", "o", "n", "s", "h", "i", "p", "t", "y", "p", "e", "s",
      ".", "j", "s", "o", "n">>

ConvertedKinds == {Str(sHolonType), Str(sPropertyType), Str(sRelationshipType)}

\* The number of descriptors a row contributes on its own.
RowCount(r) ==
    IF r["TypeKind"] \in {Str(sHolonType), Str(sPropertyType)} THEN 1
    ELSE IF r["TypeKind"] = Str(sRelationshipType)
         THEN Len(RelationshipFrom(r)) * Len(RelationshipTo(r))
    ELSE 0

\* The descriptors a row yields when converted on its own.
RowDescriptors(p, r) ==
    IF r["TypeKind"] = Str(sHolonType) THEN <<row_to_holontype(p, r).val>>
    ELSE IF r["TypeKind"] = Str(sPropertyType) THEN <<row_to_propertytype(p, r).val>>
    ELSE IF r["TypeKind"] = Str(sRelationshipType) THEN row_to_relationshiptype(p, r).val
    ELSE <<>>

BucketFileOf(kind) ==
    CASE kind = Str(sHolonType)        -> sHolonFile
      [] kind = Str(sPropertyType)     -> sPropertyFile
      [] kind = Str(sRelationshipType) -> sRelationshipFile

\* C6: after the bundle's bucket-write step every descriptor of all_desc is
\* in exactly one bucket file, lower-case(type_kind) + "s.json"; each file
\* holds the descriptors of its type_kind in the order produced; a file is
\* written only for a type_kind with at least one descriptor.
C6_BucketFiles ==
    (pipeline = "bundle" /\ pc \in {"manifest", "done"}) =>
        LET kinds == {k \in ConvertedKinds :
                        \E n \in 1..Len(descriptors) : descriptors[n].type_kind = k}
        IN  /\ written = {BucketFileOf(k) : k \in kinds}
            /\ \A k \in kinds :
                 fs[BucketFileOf(k)]
                   = SelectSeq(descriptors, LAMBDA d : d.type_kind = k)
            /\ \A n \in 1..Len(descriptors) :
                 {f \in written : \E m \in 1..Len(fs[f]) : fs[f][m] = descriptors[n]}
                   = {BucketFileOf(descriptors[n].type_kind)}

\* C6 witness: descriptors of all three kinds have been written to three
\* bucket files.
C6_Witness ==
    /\ pipeline = "bundle"
    /\ pc = "manifest"
    /\ written = {sHolonFile, sPropertyFile, sRelationshipFile}
    /\ Len(fs[sRelationshipFile]) = 4
    /\ Len(descriptors) = 6

\* C7: whenever the manifest step has run, type_files names exactly the
\* bucket files the present run's bucket-write step wrote and never
\* "schema.json", whatever the directory held when the run started and also
\* when the steps are executed again on the same directory.
C7_ManifestNamesWrittenFiles ==
    (pipeline = "bundle" /\ pc = "done") =>
        LET listed == {manifest.type_files[k] : k \in 1..Len(manifest.type_files)}
        IN  /\ listed = written
            /\ sSchemaJson \notin listed

\* A reference: an object with the key "$ref".
IsRef(v) == "$ref" \in DOMAIN v

\* A reference that carries a schema qualifier.
SchemaQualified(v) == IsRef(v) /\ "schema" \in DOMAIN v["$ref"]

\* The text ends with "->" and the target name.
EndsWithTarget(name, tgt) ==
    /\ Len(name) >= Len(tgt) + 2
    /\ SubSeq(name, Len(name) - Len(tgt) - 1, Len(name)) = <<"-", ">">> \o tgt

\* In every descriptor gathered, and so in every file written from them,
\* the fields of spec holding a schema-qualified reference are
\* target_holon_type of a RelationshipType descriptor and no other; that
\* one refers to the target its type_name ends with, qualified with the
\* schema's type_name; the wrapper's described_by is unqualified.
DescriptorQualifiers ==
    \A n \in 1..Len(descriptors) :
        LET d == descriptors[n]
            edge == d.described_by = "$ref" :> [type_name |-> Str(sRelationshipType)]
        IN  /\ ~SchemaQualified(d.described_by)
            /\ {k \in DOMAIN d.spec : SchemaQualified(d.spec[k])}
                 = IF edge THEN {"target_holon_type"} ELSE {}
            /\ edge =>
                 LET target == d.spec["target_holon_type"]["$ref"]
                 IN  /\ DOMAIN target = {"type_name", "schema"}
                     /\ target["schema"] = Str(sCatalistSchema)
                     /\ EndsWithTarget(d.type_name.s, target["type_name"].s)

\* C17 as stated: target_holon_type of every expanded RelationshipType
\* descriptor refers to its own target with the schema's type_name as
\* schema qualifier, and no other reference has a schema key: none in a
\* descriptor, none in the single-file schema header, none in the bundle
\* manifest.
C17_OnlyTargetQualified ==
    /\ DescriptorQualifiers
    /\ payload # None => ~SchemaQualified(payload.schema.described_by)
    /\ manifest # None => ~SchemaQualified(manifest.schema.described_by)

\* C17 amended: the same for the descriptors and the single-file schema
\* header; the bundle manifest's described_by is the reference to
\* "SchemaType" with the schema qualifier "CoreSchema".
C17_TargetAndManifestQualified ==
    /\ DescriptorQualifiers
    /\ payload # None =>
         (/\ ~SchemaQualified(payload.schema.described_by)
          /\ payload.schema.type_name = Str(sCatalistSchema))
    /\ manifest # None =>
         (/\ manifest.schema.described_by
               = "$ref" :> [type_name |-> Str(sSchemaType), schema |-> Str(sCoreSchema)]
          /\ manifest.schema.type_name = Str(sCatalistSchema))

\* C17 witness: the bundle manifest has been written after a run that
\* gathered a PropertyType descriptor with a value_type reference and four
\* edges with has_inverse and target_holon_type references.
C17_Witness ==
    /\ pipeline = "bundle"
    /\ pc = "done"
    /\ manifest # None
    /\ Len(df) = 2
    /\ df[1]["TypeKind"] = Str(sPropertyType)
    /\ df[2]["TypeKind"] = Str(sRelationshipType)
    /\ Len(descriptors) = 5
    /\ IsRef(descriptors[1].spec["value_type"])
    /\ IsRef(descriptors[5].spec["has_inverse"])
    /\ SchemaQualified(descriptors[5].spec["target_holon_type"])

\* The rows whose descriptors the list holds: the rows the loop has passed,
\* less the row a converter failed on.
Converted == IF pc = "failed" THEN cursor - 1 ELSE cursor

\* C14: after any prefix of rows, in either pipeline, the descriptors of a
\* row have a wrapper described_by and a spec.described_by that are
\* references to the row's TypeKind, with type_name as their only key (no
\* schema and no space qualifier).
C14_DescribedByTypeKind ==
    LET offset[k \in 0..Converted] ==
            IF k = 0 THEN 0 ELSE offset[k - 1] + RowCount(df[k])
    IN  /\ Len(descriptors) = offset[Converted]
        /\ \A k \in 1..Converted :
             \A n \in (offset[k - 1] + 1)..offset[k] :
                 /\ descriptors[n].described_by
                      = "$ref" :> [type_name |-> df[k]["TypeKind"]]
                 /\ descriptors[n].spec["described_by"]
                      = "$ref" :> [type_name |-> df[k]["TypeKind"]]

\* C14 witness: two rows of three have been processed, a PropertyType row
\* and a RelationshipType row expanded into four descriptors.
C14_Witness ==
    /\ pc = "loop"
    /\ Len(df) = 3
    /\ cursor = 2
    /\ df[1]["TypeKind"] = Str(sPropertyType)
    /\ df[2]["TypeKind"] = Str(sRelationshipType)
    /\ Len(descriptors) = 5
    /\ descriptors[5].spec["described_by"] = "$ref" :> [type_name |-> Str(sRelationshipType)]

---------------------------------------------------------------------------
(* Claims about whole runs, checked under SpecRun.                         *)

\* C15: when CSV_PATH names no file the run aborts at the load cell and, at
\* the abort and from then on, the run has created no output file and no
\* output directory, in both pipelines.
C15_MissingCsvLeavesNothing ==
    (csv = Missing /\ pc \notin {"config", "load"}) =>
        /\ pc = "aborted"
        /\ written = {}
        /\ made = {}

\* What is stored under output/ at a run's path: the file (single-file
\* pipeline) or the files of the directory (bundle), None when there is no
\* such path.  ts, files and dirs are the timestamp, fs and others of the
\* state looked at.
StoredAt(path, ts, files, dirs) ==
    IF pipeline = "single"
    THEN IF path \in DOMAIN files THEN files[path] ELSE None
    ELSE IF ts # None /\ path = OutDirName(ts.s) THEN files
         ELSE IF path \in DOMAIN dirs THEN dirs[path]
         ELSE None

\* Two readings at least one second apart.
Apart(a, b) == a - b >= TicksPerSecond \/ b - a >= TicksPerSecond

\* The text is YYYYMMDD_HHMMSS: eight digits, an underscore, six digits.
TimestampShaped(ts) ==
    /\ Len(ts) = 15
    /\ ts[9] = "_"
    /\ \A k \in (1..15) \ {9} : IsDigit(ts[k])

\* C16: the output path of a run is its timestamp, taken at one-second
\* granularity, between fixed texts (catalist_schema_<YYYYMMDD_HHMMSS>.json
\* under the output directory, or the directory map_types_<YYYYMMDD_HHMMSS>
\* under output/); two runs whose timestamps were taken at least a second
\* apart have different paths, and no step of the later run changes what
\* is stored at the path of the earlier one.
C16_PathsByTimestamp ==
    /\ [](\A i \in DOMAIN journal :
            LET head == IF pipeline = "single" THEN sBaseName \o <<"_">> ELSE sMapTypes
                tail == IF pipeline = "single" THEN sDotJson ELSE <<>>
                path == journal[i].path
                ts == SubSeq(path, Len(head) + 1, Len(path) - Len(tail))
            IN  /\ path = head \o ts \o tail
                /\ TimestampShaped(ts)
                /\ journal[i].reading \in {ReadingAtRun, ReadingAtRun + 1}
                     => ts = sTimestamp
                /\ \A j \in DOMAIN journal :
                     Apart(journal[i].reading, journal[j].reading)
                       => journal[j].path # path)
    /\ [][\A i \in DOMAIN journal :
             (/\ i < Len(journal')
              /\ Apart(journal[i].reading, journal'[Len(journal')].reading))
               => StoredAt(journal[i].path, timestamp', fs', others')
                    = StoredAt(journal[i].path, timestamp, fs, others)]_vars

\* C16 witness: two runs one second apart have both finished, and each
\* run's output is stored at its own path.
C16_Witness ==
    /\ pc = "done"
    /\ Len(journal) = 2
    /\ journal[2].reading = journal[1].reading + TicksPerSecond
    /\ journal[1].path # journal[2].path
    /\ StoredAt(journal[1].path, timestamp, fs, others) # None
    /\ StoredAt(journal[2].path, timestamp, fs, others) # None
    /\ written # {}

\* A supported row without a Type Name: the cell is blank, or the CSV has
\* no such column.
NoTypeName(r) == "Type Name" \notin DOMAIN r \/ r["Type Name"] = NaN

\* C18: when the dispatch loop comes to a HolonType, PropertyType or
\* RelationshipType row without a Type Name it fails at that row: the row
\* and the rows after it produce no descriptor, and the run writes no
\* output file.
C18_MissingNameFailsRun ==
    \A k \in 1..cursor :
        (df[k]["TypeKind"] \in ConvertedKinds /\ NoTypeName(df[k])) =>
            /\ pc = "failed"
            /\ cursor = k
            /\ ~result.ok
            /\ \A n \in 1..Len(descriptors) : descriptors[n].type_name # NaN
            /\ written = {}

=============================================================================
